---- MODULE Spec2Model ----
(***************************************************************************)
(* Model of hack/visualize-benchmarks.py: one run of main(), from the      *)
(* argument check to the summary block.  Strings the code transforms       *)
(* (benchmark names, categories) are sequences of one-character strings;   *)
(* percent values are kept exactly, as multiples of 1/Den.                 *)
(***************************************************************************)
EXTENDS Integers, Sequences, FiniteSets, TLC

VARIABLES argc, has_matplotlib, json_exists, report,
          pc, fs, stdout, stderr, exit_status,
          entries, summary, names, pct_changes, categories

vars == <<argc, has_matplotlib, json_exists, report,
          pc, fs, stdout, stderr, exit_status,
          entries, summary, names, pct_changes, categories>>

inputs == <<argc, has_matplotlib, json_exists, report>>

locals == <<entries, summary, names, pct_changes, categories>>

(***************************************************************************)
(* Bounds of the model.                                                    *)
(***************************************************************************)
MaxEntries == 3

(***************************************************************************)
(* Exact arithmetic: a value v percent is the integer v * Den, where Den   *)
(* is a common multiple of every possible member count, so that            *)
(* sum(xs) / len(xs) is an exact integer division.                         *)
(***************************************************************************)
RECURSIVE Factorial(_)
Factorial(n) == IF n <= 1 THEN 1 ELSE n * Factorial(n - 1)

Den == Factorial(MaxEntries)

(***************************************************************************)
(* Strings.                                                                *)
(***************************************************************************)
Ord ==
    ("B" :> 66) @@ ("F" :> 70) @@ ("Z" :> 90) @@ ("a" :> 97) @@ ("c" :> 99) @@
    ("e" :> 101) @@ ("h" :> 104) @@ ("k" :> 107) @@ ("l" :> 108) @@
    ("m" :> 109) @@ ("n" :> 110) @@ ("o" :> 111) @@ ("p" :> 112) @@
    ("r" :> 114) @@ ("s" :> 115) @@ ("t" :> 116)

Min(a, b) == IF a < b THEN a ELSE b

\* Python's str < str: the first differing code point decides, a proper
\* prefix is smaller.
StrLess(a, b) ==
    \E i \in 1..(Min(Len(a), Len(b)) + 1) :
        /\ \A j \in 1..(i - 1) : a[j] = b[j]
        /\ \/ i > Len(a) /\ i <= Len(b)
           \/ i <= Len(a) /\ i <= Len(b) /\ Ord[a[i]] < Ord[b[i]]

\* str.replace(old, ""): every non-overlapping occurrence, scanning from the
\* left, is removed; the result is not scanned again.
RECURSIVE RemoveAllFrom(_, _, _)
RemoveAllFrom(s, old, i) ==
    IF i > Len(s) THEN <<>>
    ELSE IF i + Len(old) - 1 <= Len(s) /\ SubSeq(s, i, i + Len(old) - 1) = old
         THEN RemoveAllFrom(s, old, i + Len(old))
         ELSE <<s[i]>> \o RemoveAllFrom(s, old, i + 1)

Benchmark == <<"B", "e", "n", "c", "h", "m", "a", "r", "k">>

DisplayName(name) == RemoveAllFrom(name, Benchmark, 1)

(***************************************************************************)
(* The input document.  An entry carries the nine fields of the report     *)
(* format; a malformed report is a well-formed one with one key removed.   *)
(***************************************************************************)
Foo == <<"F", "o", "o">>

Bar == <<"B", "a", "r">>

CatAlert == <<"a", "l", "e", "r", "t">>

CatAlerts == <<"a", "l", "e", "r", "t", "s">>

CatZap == <<"Z", "a", "p">>

Entry(name, category, pct) ==
    [name |-> name, category |-> category,
     old_ns_per_op |-> 100, new_ns_per_op |-> 100 + pct,
     ns_per_op_change_pct |-> pct * Den,
     old_bytes_per_op |-> 64, new_bytes_per_op |-> 48,
     old_allocs_per_op |-> 2, new_allocs_per_op |-> 1]

Universe ==
    << Entry(Benchmark \o Foo, CatAlert, -10),
       Entry(Foo, CatAlert, 2),
       Entry(Foo \o Benchmark \o Bar, CatAlert, -1),
       Entry(Benchmark \o Bar, CatAlerts, 3),
       Entry(<<"B", "e", "n", "c", "h">> \o Benchmark \o <<"m", "a", "r", "k">>,
             CatZap, 1) >>

TopLevelKeys == {"old_label", "new_label", "entries", "summary"}

EntryFields ==
    {"name", "category", "old_ns_per_op", "new_ns_per_op",
     "ns_per_op_change_pct", "old_bytes_per_op", "new_bytes_per_op",
     "old_allocs_per_op", "new_allocs_per_op"}

SummaryKeys == {"new_wins", "old_wins", "ties", "avg_ns_per_op_change_pct"}

Without(f, k) == [x \in (DOMAIN f) \ {k} |-> f[x]]

EntryLists ==
    UNION { { [i \in 1..n |-> Universe[idx[i]]] :
                idx \in [1..n -> 1..Len(Universe)] } : n \in 0..MaxEntries }

WellFormedReports ==
    { [old_label |-> "go-1.25.5", new_label |-> "go-1.26", entries |-> es,
       summary |-> [new_wins |-> 1, old_wins |-> 1, ties |-> 1,
                    avg_ns_per_op_change_pct |-> 0]] : es \in EntryLists }

MalformedReports(r) ==
    { Without(r, k) : k \in TopLevelKeys }
    \cup { [r EXCEPT !.summary = Without(r.summary, k)] : k \in SummaryKeys }
    \cup { [r EXCEPT !.entries[i] = Without(r.entries[i], f)] :
             i \in 1..Len(r.entries), f \in EntryFields }

EmptyDict == [k \in {} |-> 0]

\* The file system the run starts on: the output directory absent, or left
\* behind by an earlier run together with a file that is none of the charts.
PreviousFile == [writer |-> "previous", kind |-> "png"]

ChartFiles ==
    {"ns_per_op_comparison.png", "pct_change.png", "allocs_comparison.png",
     "category_summary.png"}

InitialFileSystems ==
    { [charts |-> FALSE, files |-> EmptyDict],
      [charts |-> TRUE,
       files |-> [f \in ChartFiles \cup {"notes.txt"} |-> PreviousFile]] }

(***************************************************************************)
(* Helpers of the renderers.                                               *)
(***************************************************************************)
RECURSIVE Sum(_)
Sum(xs) == IF xs = <<>> THEN 0 ELSE xs[1] + Sum(Tail(xs))

\* sorted(range(len(keys)), key=lambda i: keys[i]): a stable ascending sort
\* of the positions 1..Len(keys).
RECURSIVE SortedIndicesUpTo(_, _)
SortedIndicesUpTo(keys, n) ==
    IF n = 0 THEN <<>>
    ELSE LET prev == SortedIndicesUpTo(keys, n - 1)
             k == Cardinality({j \in 1..Len(prev) : keys[prev[j]] <= keys[n]})
         IN SubSeq(prev, 1, k) \o <<n>> \o SubSeq(prev, k + 1, Len(prev))

SortedIndices(keys) == SortedIndicesUpTo(keys, Len(keys))

\* The distinct elements of a list in order of first appearance: the key
\* order of a dict filled from the list, and the order in which a
\* categorical axis hands out positions to string coordinates.
RECURSIVE Distinct(_)
Distinct(xs) ==
    IF xs = <<>> THEN <<>>
    ELSE LET init == Distinct(SubSeq(xs, 1, Len(xs) - 1))
             x == xs[Len(xs)]
         IN IF \E j \in 1..Len(init) : init[j] = x THEN init ELSE init \o <<x>>

IndexOf(xs, x) == CHOOSE j \in 1..Len(xs) : xs[j] = x

\* Position (0-based) a categorical axis gives to each string coordinate.
CategoricalPositions(labels) ==
    [i \in 1..Len(labels) |-> IndexOf(Distinct(labels), labels[i]) - 1]

\* sorted(keys) on distinct strings.
RECURSIVE SortedStrings(_)
SortedStrings(xs) ==
    IF xs = <<>> THEN <<>>
    ELSE LET prev == SortedStrings(SubSeq(xs, 1, Len(xs) - 1))
             x == xs[Len(xs)]
             k == Cardinality({j \in 1..Len(prev) : ~StrLess(x, prev[j])})
         IN SubSeq(prev, 1, k) \o <<x>> \o SubSeq(prev, k + 1, Len(prev))

\* for e in entries: cat_changes.setdefault(cat, []).append(...): the changes
\* of the entries of category c, in input order.
RECURSIVE ChangesOf(_, _)
ChangesOf(es, c) ==
    IF es = <<>> THEN <<>>
    ELSE LET init == ChangesOf(SubSeq(es, 1, Len(es) - 1), c)
             e == es[Len(es)]
         IN IF e.category = c THEN Append(init, e.ns_per_op_change_pct) ELSE init

\* Color scheme
color_better == "#27AE60"

color_worse == "#E74C3C"

color_neutral == "#95A5A6"

\* The colour of a bar of the percent-change chart; c is a percent value
\* in units of 1/Den.
BarColor_le(c) ==
    IF c <= -1 * Den THEN color_better
    ELSE IF c >= 1 * Den THEN color_worse ELSE color_neutral

BarColor(c) ==
    IF c < -1 * Den THEN color_better
    ELSE IF c > 1 * Den THEN color_worse ELSE color_neutral

\* The colour of a bar of the category chart.
CatColor(v) ==
    IF v < -1 * Den THEN color_better
    ELSE IF v > 1 * Den THEN color_worse ELSE color_neutral

Mean(xs) == Sum(xs) \div Len(xs)

Init ==
    /\ argc \in {1, 2}
    /\ has_matplotlib \in BOOLEAN
    /\ json_exists \in BOOLEAN
    /\ \E r \in WellFormedReports : report \in {r} \cup MalformedReports(r)
    \* A document that is never opened has no effect on the run.
    /\ (argc < 2 \/ ~has_matplotlib \/ ~json_exists)
          => report \in WellFormedReports /\ report.entries = <<Universe[1]>>
    /\ fs \in InitialFileSystems
    /\ pc = "start"
    /\ stdout = <<>>
    /\ stderr = <<>>
    /\ exit_status = <<>>
    /\ entries = <<>>
    /\ summary = EmptyDict
    /\ names = <<>>
    /\ pct_changes = <<>>
    /\ categories = <<>>

(***************************************************************************)
(* Steps of main().                                                        *)
(***************************************************************************)
Exit(status) ==
    /\ exit_status' = <<status>>
    /\ pc' = "exited"

\* An exception nobody catches: traceback on stderr, exit status 1.
Raise(exception) ==
    /\ stderr' = Append(stderr, exception)
    /\ exit_status' = <<1>>
    /\ pc' = "crashed"

UsageLines ==
    << "Usage: python3 hack/visualize-benchmarks.py <comparison.json>",
       "",
       "Generate the JSON first:",
       "  go run hack/benchanalyze/main.go -old results/go-1.25.5.txt -new results/go-1.26.txt -output results/" >>

Usage ==
    /\ pc = "start"
    /\ argc < 2
    /\ stdout' = stdout \o UsageLines
    /\ Exit(1)
    /\ UNCHANGED <<inputs, fs, stderr, locals>>

\* os.makedirs(output_dir, exist_ok=True)
MakeOutputDir ==
    /\ pc = "start"
    /\ argc >= 2
    /\ fs' = [fs EXCEPT !.charts = TRUE]
    /\ pc' = "check_matplotlib"
    /\ UNCHANGED <<inputs, stdout, stderr, exit_status, locals>>

MissingMatplotlib ==
    /\ pc = "check_matplotlib"
    /\ ~has_matplotlib
    /\ stdout' = Append(stdout, "matplotlib is required. Install with: pip install matplotlib")
    /\ Exit(1)
    /\ UNCHANGED <<inputs, fs, stderr, locals>>

OpenFails ==
    /\ pc = "check_matplotlib"
    /\ has_matplotlib
    /\ ~json_exists
    /\ Raise("FileNotFoundError")
    /\ UNCHANGED <<inputs, fs, stdout, locals>>

LoadKeyError ==
    /\ pc = "check_matplotlib"
    /\ has_matplotlib
    /\ json_exists
    /\ ~(TopLevelKeys \subseteq DOMAIN report)
    /\ Raise("KeyError")
    /\ UNCHANGED <<inputs, fs, stdout, locals>>

Load ==
    /\ pc = "check_matplotlib"
    /\ has_matplotlib
    /\ json_exists
    /\ TopLevelKeys \subseteq DOMAIN report
    /\ entries' = report.entries
    /\ summary' = report.summary
    /\ pc' = "loaded"
    /\ UNCHANGED <<inputs, fs, stdout, stderr, exit_status, names, pct_changes,
                   categories>>

\* `not entries`
IsEmpty_never(list) == FALSE

IsEmpty(list) == Len(list) = 0

NoEntries ==
    /\ pc = "loaded"
    /\ IsEmpty(entries)
    /\ stdout' = Append(stdout, "No benchmark entries found in the report.")
    /\ Exit(1)
    /\ UNCHANGED <<inputs, fs, stderr, locals>>

PreparedFields ==
    {"name", "old_ns_per_op", "new_ns_per_op", "ns_per_op_change_pct", "category"}

AllocationFields ==
    {"old_bytes_per_op", "new_bytes_per_op", "old_allocs_per_op",
     "new_allocs_per_op"}

HaveFields(es, fields) == \A i \in 1..Len(es) : fields \subseteq DOMAIN es[i]

PrepareKeyError ==
    /\ pc = "loaded"
    /\ ~IsEmpty(entries)
    /\ ~HaveFields(entries, PreparedFields)
    /\ Raise("KeyError")
    /\ UNCHANGED <<inputs, fs, stdout, locals>>

PrepareData ==
    /\ pc = "loaded"
    /\ ~IsEmpty(entries)
    /\ HaveFields(entries, PreparedFields)
    /\ names' = [i \in 1..Len(entries) |-> DisplayName(entries[i].name)]
    /\ pct_changes' = [i \in 1..Len(entries) |-> entries[i].ns_per_op_change_pct]
    /\ categories' = [i \in 1..Len(entries) |-> entries[i].category]
    /\ pc' = "chart1"
    /\ UNCHANGED <<inputs, fs, stdout, stderr, exit_status, entries, summary>>

NsPerOpFile == "ns_per_op_comparison.png"

PctChangeFile == "pct_change.png"

AllocsFile_copied == "pct_change.png"

AllocsFile == "allocs_comparison.png"

CategoryFile == "category_summary.png"

SavedLine(file) ==
    CASE file = "ns_per_op_comparison.png" -> "Saved: charts/ns_per_op_comparison.png"
      [] file = "pct_change.png" -> "Saved: charts/pct_change.png"
      [] file = "allocs_comparison.png" -> "Saved: charts/allocs_comparison.png"
      [] file = "category_summary.png" -> "Saved: charts/category_summary.png"

\* fig.savefig(chart_path); plt.close(fig); print(f"Saved: {chart_path}")
Save(file, image, next) ==
    /\ fs' = [fs EXCEPT !.files = (file :> image) @@ fs.files]
    /\ stdout' = Append(stdout, SavedLine(file))
    /\ pc' = next

Column(field) == [i \in 1..Len(entries) |-> entries[i][field]]

\* --- Chart 1: ns/op comparison (grouped bar chart) ---
Chart1 ==
    /\ pc = "chart1"
    /\ Save(NsPerOpFile,
            [writer |-> "run", kind |-> "ns_per_op_comparison",
             xticklabels |-> names,
             bars1 |-> Column("old_ns_per_op"),
             bars2 |-> Column("new_ns_per_op")],
            "chart2")
    /\ UNCHANGED <<inputs, stderr, exit_status, locals>>

\* --- Chart 2: % change horizontal bar chart ---
sorted_indices_reversed ==
    LET asc == SortedIndices(pct_changes)
    IN [i \in 1..Len(asc) |-> asc[Len(asc) + 1 - i]]

sorted_indices == SortedIndices(pct_changes)

sorted_names == [i \in 1..Len(sorted_indices) |-> names[sorted_indices[i]]]

sorted_changes == [i \in 1..Len(sorted_indices) |-> pct_changes[sorted_indices[i]]]

bar_colors == [i \in 1..Len(sorted_changes) |-> BarColor(sorted_changes[i])]

\* ax.barh(sorted_names, sorted_changes, color=bar_colors): the y coordinates
\* are strings, so each bar sits at the categorical position of its name.
PctChangeBars ==
    LET y == CategoricalPositions(sorted_names)
    IN [i \in 1..Len(sorted_names) |->
          [y |-> y[i], label |-> sorted_names[i], width |-> sorted_changes[i],
           color |-> bar_colors[i]]]

\* for i, (v, name) in enumerate(zip(...)): ax.text(v + offset, i, ...)
PctChangeTexts ==
    [i \in 1..Len(sorted_changes) |-> [y |-> i - 1, value |-> sorted_changes[i]]]

Chart2 ==
    /\ pc = "chart2"
    /\ Save(PctChangeFile,
            [writer |-> "run", kind |-> "pct_change",
             bars |-> PctChangeBars, texts |-> PctChangeTexts],
            "chart3")
    /\ UNCHANGED <<inputs, stderr, exit_status, locals>>

\* --- Chart 3: Allocation comparison ---
Chart3KeyError_swallowed ==
    /\ pc = "chart3"
    /\ ~HaveFields(entries, AllocationFields)
    /\ stderr' = Append(stderr, "KeyError")
    /\ pc' = "chart4"
    /\ UNCHANGED <<inputs, fs, stdout, exit_status, locals>>

Chart3KeyError ==
    /\ pc = "chart3"
    /\ ~HaveFields(entries, AllocationFields)
    /\ Raise("KeyError")
    /\ UNCHANGED <<inputs, fs, stdout, locals>>

Chart3 ==
    /\ pc = "chart3"
    /\ HaveFields(entries, AllocationFields)
    /\ Save(AllocsFile,
            [writer |-> "run", kind |-> "allocs_comparison",
             yticklabels |-> names,
             old_bytes |-> Column("old_bytes_per_op"),
             new_bytes |-> Column("new_bytes_per_op"),
             old_allocs |-> Column("old_allocs_per_op"),
             new_allocs |-> Column("new_allocs_per_op")],
            "chart4")
    /\ UNCHANGED <<inputs, stderr, exit_status, locals>>

\* --- Chart 4: Category summary ---
cat_changes(c) == ChangesOf(entries, c)

cat_counts(c) == Cardinality({i \in 1..Len(entries) : entries[i].category = c})

cat_names_unsorted == Distinct(Column("category"))

cat_names == SortedStrings(Distinct(Column("category")))

cat_avgs == [i \in 1..Len(cat_names) |-> Mean(cat_changes(cat_names[i]))]

cat_labels ==
    [i \in 1..Len(cat_names) |->
        [category |-> cat_names[i], n |-> cat_counts(cat_names[i])]]

cat_colors == [i \in 1..Len(cat_avgs) |-> CatColor(cat_avgs[i])]

CategoryBars ==
    LET y == CategoricalPositions(cat_labels)
    IN [i \in 1..Len(cat_labels) |->
          [y |-> y[i], label |-> cat_labels[i], width |-> cat_avgs[i],
           color |-> cat_colors[i]]]

CategoryTexts == [i \in 1..Len(cat_avgs) |-> [y |-> i - 1, value |-> cat_avgs[i]]]

Chart4 ==
    /\ pc = "chart4"
    /\ Save(CategoryFile,
            [writer |-> "run", kind |-> "category_summary",
             bars |-> CategoryBars, texts |-> CategoryTexts],
            "summary")
    /\ UNCHANGED <<inputs, stderr, exit_status, locals>>

\* The file a renderer is about to write.
PendingFile ==
    CASE pc = "chart1" -> NsPerOpFile
      [] pc = "chart2" -> PctChangeFile
      [] pc = "chart3" -> AllocsFile
      [] pc = "chart4" -> CategoryFile

\* fig.savefig raises (the directory is not writable, the disk is full): the
\* file is either not opened at all or left behind incomplete.
SaveFails ==
    /\ pc \in {"chart1", "chart2", "chart3", "chart4"}
    /\ pc = "chart3" => HaveFields(entries, AllocationFields)
    /\ \E opened \in BOOLEAN :
         fs' = IF opened
               THEN [fs EXCEPT !.files =
                        (PendingFile :> [writer |-> "run", kind |-> "incomplete"])
                        @@ fs.files]
               ELSE fs
    /\ Raise("OSError")
    /\ UNCHANGED <<inputs, stdout, locals>>

\* --- Summary output ---
SummaryOrder == <<"new_wins", "old_wins", "ties", "avg_ns_per_op_change_pct">>

SummaryLines ==
    << "All charts saved to: charts/", "Summary:", "  go-1.26 wins: 1",
       "  go-1.25.5 wins: 1", "  Ties:       1", "  Avg change: +0.00%" >>

SummaryKeyError ==
    /\ pc = "summary"
    /\ \E k \in 1..Len(SummaryOrder) :
         /\ SummaryOrder[k] \notin DOMAIN summary
         /\ \A j \in 1..(k - 1) : SummaryOrder[j] \in DOMAIN summary
         /\ stdout' = stdout \o SubSeq(SummaryLines, 1, k + 1)
    /\ Raise("KeyError")
    /\ UNCHANGED <<inputs, fs, locals>>

Summary ==
    /\ pc = "summary"
    /\ \A k \in 1..Len(SummaryOrder) : SummaryOrder[k] \in DOMAIN summary
    /\ stdout' = stdout \o SummaryLines
    /\ exit_status' = <<0>>
    /\ pc' = "done"
    /\ UNCHANGED <<inputs, fs, stderr, locals>>

Next ==
    \/ Usage
    \/ MakeOutputDir
    \/ MissingMatplotlib
    \/ OpenFails
    \/ LoadKeyError
    \/ Load
    \/ NoEntries
    \/ PrepareKeyError
    \/ PrepareData
    \/ Chart1
    \/ Chart2
    \/ Chart3KeyError
    \/ Chart3
    \/ Chart4
    \/ SaveFails
    \/ SummaryKeyError
    \/ Summary

Spec == Init /\ [][Next]_vars

(***************************************************************************)
(* Vocabulary of the properties.                                           *)
(***************************************************************************)
\* The files this run has created or overwritten so far.
Written == {f \in DOMAIN fs.files : fs.files[f].writer = "run"}

\* The image files this run has written completely.
Rendered == {f \in Written : fs.files[f].kind # "incomplete"}

Terminated == pc \in {"exited", "crashed", "done"}

WellFormed(r) ==
    /\ {"old_label", "new_label", "entries", "summary"} \subseteq DOMAIN r
    /\ {"new_wins", "old_wins", "ties", "avg_ns_per_op_change_pct"}
          \subseteq DOMAIN r.summary
    /\ \A i \in 1..Len(r.entries) :
          {"name", "category", "old_ns_per_op", "new_ns_per_op",
           "ns_per_op_change_pct", "old_bytes_per_op", "new_bytes_per_op",
           "old_allocs_per_op", "new_allocs_per_op"} \subseteq DOMAIN r.entries[i]

\* The run gets as far as reading the document.
ReadsReport == argc >= 2 /\ has_matplotlib /\ json_exists

NoPathRun == argc < 2

EmptyDataRun == ReadsReport /\ WellFormed(report) /\ report.entries = <<>>

Drawn(file, kind) == file \in DOMAIN fs.files /\ fs.files[file].kind = kind

DeltaDrawn == Drawn("pct_change.png", "pct_change")

RollupDrawn == Drawn("category_summary.png", "category_summary")

DeltaBars == fs.files["pct_change.png"].bars

DeltaTexts == fs.files["pct_change.png"].texts

RollupBars == fs.files["category_summary.png"].bars

Occurrences(xs, x) == Cardinality({j \in 1..Len(xs) : xs[j] = x})

\* C1: a run on a well-formed, non-empty report with charting available that
\* terminates without an error has written exactly the four image files, each
\* complete, and exits with status zero.
C1_FourImagesExitZero ==
    /\ pc = "done" =>
          /\ exit_status = <<0>>
          /\ Written = {"ns_per_op_comparison.png", "pct_change.png",
                        "allocs_comparison.png", "category_summary.png"}
          /\ Rendered = Written
          /\ Cardinality(Written) = 4
    /\ (ReadsReport /\ WellFormed(report) /\ report.entries # <<>>
        /\ Terminated /\ stderr = <<>>) => pc = "done"

C1_Witness ==
    /\ pc = "done"
    /\ Len(entries) >= 2
    /\ "notes.txt" \in DOMAIN fs.files

\* C2: a run without an input path, and a run on a well-formed report with an
\* empty entry list, never reaches a renderer or the summary, writes no image
\* file, and ends with its message printed and a non-zero exit status.
C2_FailFastWritesNothing ==
    (NoPathRun \/ EmptyDataRun) =>
        /\ pc \in {"start", "check_matplotlib", "loaded", "exited"}
        /\ Written = {}
        /\ \A i \in 1..Len(stdout) :
              stdout[i] \notin {"Saved: charts/ns_per_op_comparison.png",
                                "Saved: charts/pct_change.png",
                                "Saved: charts/allocs_comparison.png",
                                "Saved: charts/category_summary.png",
                                "All charts saved to: charts/", "Summary:"}
        /\ Terminated =>
              /\ exit_status # <<>> /\ exit_status[1] # 0
              /\ NoPathRun =>
                    /\ stdout[1] = "Usage: python3 hack/visualize-benchmarks.py <comparison.json>"
                    /\ \E i \in 1..Len(stdout) :
                          stdout[i] = "  go run hack/benchanalyze/main.go -old results/go-1.25.5.txt -new results/go-1.26.txt -output results/"
              /\ EmptyDataRun =>
                    stdout = <<"No benchmark entries found in the report.">>

C2_Witness == EmptyDataRun /\ pc = "exited" /\ fs.charts

\* C3: in a usage-error run, a missing-capability run and an empty-data run
\* no step changes the file system; in particular the charts directory is not
\* created.
C3_NoFilesTouched ==
    [][(NoPathRun \/ ~has_matplotlib \/ EmptyDataRun) => fs' = fs]_vars

\* C4: the bars of the percent-change chart, as (display name, change) pairs,
\* are a reordering of the entries' pairs, in ascending order of change.
C4_DeltaSortedPermutation ==
    DeltaDrawn =>
        /\ Len(DeltaBars) = Len(entries)
        /\ \A k \in 1..(Len(DeltaBars) - 1) :
              DeltaBars[k].width <= DeltaBars[k + 1].width
        /\ LET In == [i \in 1..Len(entries) |->
                        <<names[i], entries[i].ns_per_op_change_pct>>]
               Out == [k \in 1..Len(DeltaBars) |->
                        <<DeltaBars[k].label, DeltaBars[k].width>>]
           IN \A i \in 1..Len(In) : Occurrences(Out, In[i]) = Occurrences(In, In[i])

C4_Witness ==
    /\ DeltaDrawn
    /\ \E i, j \in 1..Len(pct_changes) : i < j /\ pct_changes[i] > pct_changes[j]
    /\ \E i, j \in 1..Len(pct_changes) : i < j /\ pct_changes[i] = pct_changes[j]

\* C5: every bar of the percent-change chart is coloured by its entry's
\* change, and every bar of the category chart by its category's mean:
\* below -1 improved, above +1 regressed, from -1 to +1 inclusive neutral.
ThresholdColor(v, color) ==
    /\ v < -Den => color = "#27AE60"
    /\ v > Den => color = "#E74C3C"
    /\ (-Den <= v /\ v <= Den) => color = "#95A5A6"

MembersOf(c) == {i \in 1..Len(entries) : entries[i].category = c}

RECURSIVE SumOver(_, _)
SumOver(S, f) ==
    IF S = {} THEN 0
    ELSE LET i == CHOOSE x \in S : TRUE IN f[i] + SumOver(S \ {i}, f)

C5_ThresholdColours ==
    /\ DeltaDrawn =>
          \A k \in 1..Len(DeltaBars) :
              ThresholdColor(DeltaBars[k].width, DeltaBars[k].color)
    /\ RollupDrawn =>
          \A k \in 1..Len(RollupBars) :
              LET members == MembersOf(RollupBars[k].label.category)
              IN /\ RollupBars[k].width * Cardinality(members)
                       = SumOver(members, pct_changes)
                 /\ ThresholdColor(RollupBars[k].width, RollupBars[k].color)

C5_Witness ==
    /\ DeltaDrawn
    /\ RollupDrawn
    /\ \E k \in 1..Len(DeltaBars) :
          DeltaBars[k].width = -Den /\ DeltaBars[k].color = "#95A5A6"
    /\ \E k \in 1..Len(DeltaBars) :
          DeltaBars[k].width = Den /\ DeltaBars[k].color = "#95A5A6"
    /\ \E k \in 1..Len(RollupBars), j \in 1..Len(DeltaBars) :
          /\ DeltaBars[j].width \in
                {pct_changes[i] : i \in MembersOf(RollupBars[k].label.category)}
          /\ DeltaBars[j].color # RollupBars[k].color

\* C6: the rows of the category chart are the distinct categories of the
\* entries, each once, in lexicographic order; a row's value is the mean of
\* its members' changes and its count the number of its members.
C6_RollupRows ==
    RollupDrawn =>
        /\ {RollupBars[k].label.category : k \in 1..Len(RollupBars)}
              = {entries[i].category : i \in 1..Len(entries)}
        /\ \A k \in 1..(Len(RollupBars) - 1) :
              StrLess(RollupBars[k].label.category, RollupBars[k + 1].label.category)
        /\ \A k \in 1..Len(RollupBars) :
              LET members == MembersOf(RollupBars[k].label.category)
              IN /\ RollupBars[k].label.n = Cardinality(members)
                 /\ RollupBars[k].width * Cardinality(members)
                       = SumOver(members, [i \in 1..Len(entries) |->
                                              entries[i].ns_per_op_change_pct])
                 /\ RollupBars[k].y = k - 1
                 /\ ({entries[i].ns_per_op_change_pct : i \in members}
                        = {-10 * Den, 2 * Den, -1 * Den}
                     /\ Cardinality(members) = 3)
                       => RollupBars[k].width = -3 * Den
        /\ SumOver(1..Len(RollupBars), [k \in 1..Len(RollupBars) |->
                                          RollupBars[k].label.n]) = Len(entries)

C6_Witness ==
    /\ RollupDrawn
    /\ Len(RollupBars) >= 2
    /\ entries[1].category = RollupBars[Len(RollupBars)].label.category
    /\ \E k \in 1..Len(RollupBars) : RollupBars[k].label.n >= 2

\* C7: the display name of an entry is its name without a leading
\* "Benchmark"; a name that does not begin with it is unchanged.
StripPrefix(name) ==
    IF Len(name) >= 9 /\ SubSeq(name, 1, 9) = <<"B", "e", "n", "c", "h", "m", "a", "r", "k">>
    THEN SubSeq(name, 10, Len(name))
    ELSE name

C7_PrefixOnly ==
    \A i \in 1..Len(names) : names[i] = StripPrefix(entries[i].name)

\* C8: a report that lacks a required top-level key or a required field of
\* an entry makes the run fail before any image file is written.
MalformedReport ==
    \/ ~({"old_label", "new_label", "entries", "summary"} \subseteq DOMAIN report)
    \/ \E i \in 1..Len(report.entries) :
          ~({"name", "category", "old_ns_per_op", "new_ns_per_op",
             "ns_per_op_change_pct", "old_bytes_per_op", "new_bytes_per_op",
             "old_allocs_per_op", "new_allocs_per_op"}
               \subseteq DOMAIN report.entries[i])

C8_MalformedFailsInLoad == (ReadsReport /\ MalformedReport) => Written = {}

\* C9: the k-th bar of the percent-change chart in sorted order is on row k,
\* with its annotation on the same row, so there are as many rows of bars as
\* entries.
C9_OneRowPerEntry ==
    DeltaDrawn =>
        /\ \A k \in 1..Len(DeltaBars) :
              DeltaBars[k].y = k - 1 /\ DeltaTexts[k].y = DeltaBars[k].y
        /\ Cardinality({DeltaBars[k].y : k \in 1..Len(DeltaBars)}) = Len(entries)

\* C10: the stages run in the order load, four renderers, summary: an image
\* is written only after the images before it, the summary is printed only
\* after all four images; once a stage has failed nothing more is written or
\* printed, and an image a renderer has written stays on disk as it is.
ChartOrder ==
    <<"ns_per_op_comparison.png", "pct_change.png", "allocs_comparison.png",
      "category_summary.png">>

C10_LinearFailFast ==
    [][/\ \A k \in 1..Len(ChartOrder) :
             ChartOrder[k] \in Written' =>
                 \A j \in 1..(k - 1) : ChartOrder[j] \in Rendered'
       /\ (\E i \in 1..Len(stdout') :
               stdout'[i] \in {"All charts saved to: charts/", "Summary:"})
             => \A k \in 1..Len(ChartOrder) : ChartOrder[k] \in Rendered'
       /\ (stderr # <<>> \/ Terminated) => (fs' = fs /\ stdout' = stdout)
       /\ \A f \in Rendered :
             f \in DOMAIN fs'.files /\ fs'.files[f] = fs.files[f]
      ]_vars

C10_Witness ==
    /\ pc = "crashed"
    /\ stderr = <<"KeyError">>
    /\ Rendered = {"ns_per_op_comparison.png", "pct_change.png"}
    /\ Written = Rendered

====
